---------------------------- MODULE Spec2Model ----------------------------
(***************************************************************************)
(* A model of brk (src/brk.go), a command-line wrapper around git.         *)
(*                                                                         *)
(* One behaviour of the model is one run of the process.  The state is the *)
(* process's argument vector, its position in the code, the locals of the  *)
(* running handler, and what the run has done so far: the lines it has     *)
(* printed (out), the shell commands it has handed to execute (cmds), the  *)
(* child it is waiting for (child), the lines it has read from standard    *)
(* input (reads) and its exit status.  Everything outside the process (the *)
(* outcome of a git call, the text git prints, what the user types) is     *)
(* chosen with \E at the step that asks for it.                            *)
(*                                                                         *)
(* Strings are TLA+ strings where the code only compares or prints them.   *)
(* Where the code looks inside a string (strings.Contains, strings.ToLower,*)
(* fmt.Sscanf) the string is taken apart into its characters.              *)
(***************************************************************************)
EXTENDS Integers, Sequences, FiniteSets, TLC

VARIABLES
    osArgs,      \* os.Args[1:], fixed for the run
    pc,          \* position in the code
    ret,         \* where execute returns to
    child,       \* the command execute is waiting for, or <<>>
    out,         \* what has been printed, in order
    cmds,        \* the commands handed to execute, in order
    reads,       \* number of fmt.Scanln calls made
    exitCode,    \* -1 while running, else the process's exit status
    repoCheck,   \* outcome of main's checkGitRepo: "pending", "ok", "failed"
    loc          \* the running handler's locals

vars == <<osArgs, pc, ret, child, out, cmds, reads, exitCode, repoCheck, loc>>

---------------------------------------------------------------------------
(* Bounds of the model *)

\* longest argument list after the command name
MaxArgs == 3
\* most lines in one output of git cherry / git branch
MaxLines == 2
\* longest token typed at the recent prompt
MaxChoiceLen == 2

(* Program constants *)

\* head -n 5 in recent
RecentLimit == 5

---------------------------------------------------------------------------
(* Helpers on sequences *)

SeqsUpTo(S, n) == UNION {[1..k -> S] : k \in 0..n}

Tail2(s) == SubSeq(s, 3, Len(s))

\* strings.Contains on character sequences
Contains(s, sub) ==
    \E i \in 0..(Len(s) - Len(sub)) : SubSeq(s, i + 1, i + Len(sub)) = sub

None == <<>>

\* one printed line: what it is and the values formatted into it
Line(tag, arg) == [tag |-> tag, arg |-> arg]

Tags(o) == [i \in DOMAIN o |-> o[i].tag]

HasTag(o, t) == \E i \in DOMAIN o : o[i].tag = t

---------------------------------------------------------------------------
(* The command line *)

HandlerCommands ==
    {"update", "refresh", "rehydrate", "split", "push", "mv", "cleanup",
     "hide", "pack", "recent", "shove", "status", "cherry-log"}

\* commands whose handler parses args as flags
FlagCommands == {"update", "refresh", "rehydrate", "split", "push", "mv"}

Commands == HandlerCommands \cup {"frobnicate"}

FlagTokens == {"-name", "-new-name", "-branch", "-remote"}

Values == {"", "a", "b"}

Tokens == FlagTokens \cup Values

ArgLists == SeqsUpTo(Tokens, MaxArgs)

\* the other commands read at most the first argument
ArgListsFor(c) ==
    IF c \in FlagCommands THEN ArgLists ELSE {a \in ArgLists : Len(a) <= 1}

Invocations ==
    {<<>>} \cup UNION {{<<c>> \o a : a \in ArgListsFor(c)} : c \in Commands}

command == osArgs[1]

args == Tail(osArgs)

---------------------------------------------------------------------------
(* package flag: FlagSet.Parse with flag.ExitOnError *)

\* the flag a token names: the token without its leading minus
FlagName(s) ==
    CASE s = "-name" -> "name"
      [] s = "-new-name" -> "new-name"
      [] s = "-branch" -> "branch"
      [] s = "-remote" -> "remote"

\* Parse stops at the first token that is shorter than two characters or
\* does not start with '-'; a flag takes the next token as its value; a flag
\* the handler has not declared, or one with no token after it, is an error.
\* (The forms -flag=value, -- and -h are not among the tokens drawn.)
RECURSIVE FlagParse(_, _)
FlagParse(a, vals) ==
    IF a = <<>> THEN [err |-> FALSE, vals |-> vals, rest |-> <<>>]
    ELSE IF Head(a) \notin FlagTokens
         THEN [err |-> FALSE, vals |-> vals, rest |-> a]
    ELSE IF FlagName(Head(a)) \notin DOMAIN vals
         THEN [err |-> TRUE, vals |-> vals, rest |-> Tail(a)]
    ELSE IF Len(a) < 2
         THEN [err |-> TRUE, vals |-> vals, rest |-> <<>>]
    ELSE FlagParse(Tail2(a), [vals EXCEPT ![FlagName(Head(a))] = a[2]])

---------------------------------------------------------------------------
(* Init *)

NoLocals == [h |-> "none"]

Init ==
    /\ osArgs \in Invocations
    /\ pc = "main"
    /\ ret = "none"
    /\ child = None
    /\ out = <<>>
    /\ cmds = <<>>
    /\ reads = 0
    /\ exitCode = -1
    /\ repoCheck = "pending"
    /\ loc = NoLocals

---------------------------------------------------------------------------
(* Leaving the process *)

\* os.Exit(code), or main returning (code 0)
Exit(code) ==
    /\ pc' = "exited"
    /\ exitCode' = code

\* print and leave
PrintExit(lines, code) ==
    /\ out' = out \o lines
    /\ Exit(code)
    /\ UNCHANGED <<osArgs, ret, child, cmds, reads, repoCheck, loc>>

HelpText == Line("Help", <<>>)

---------------------------------------------------------------------------
(* execute *)

\* the lines `prints`, then execute(command), first half: print the command
\* and start the shell
executeAfter(prints, c, back) ==
    /\ out' = out \o prints \o <<Line("Executing", c)>>
    /\ cmds' = Append(cmds, c)
    /\ child' = c
    /\ ret' = back
    /\ pc' = "execute"

\* execute(command), first half
execute(c, back) == executeAfter(<<>>, c, back)

\* execute with a failed command ending the process
ExecuteDone_abort(ok) ==
    /\ out' = IF ok THEN out ELSE Append(out, Line("ErrorExecuting", child))
    /\ child' = None
    /\ IF ~ok THEN Exit(1)
       ELSE IF ret = "return" THEN Exit(0)
       ELSE pc' = ret /\ exitCode' = exitCode
    /\ ret' = "none"

\* what execute does once the child has exited
ExecuteDone(ok) ==
    /\ out' = IF ok THEN out ELSE Append(out, Line("ErrorExecuting", child))
    /\ child' = None
    /\ IF ret = "return" THEN Exit(0) ELSE pc' = ret /\ exitCode' = exitCode
    /\ ret' = "none"

\* execute(command), second half: cmd.Run returns
ExecuteWait ==
    /\ pc = "execute"
    /\ \E ok \in BOOLEAN : ExecuteDone(ok)
    /\ UNCHANGED <<osArgs, cmds, reads, repoCheck, loc>>

---------------------------------------------------------------------------
(* main *)

NotARepo == Line("ErrorNotARepo", <<>>)

\* checkGitRepo without its os.Exit(1)
checkGitRepo_noExit(ok, next) ==
    /\ pc' = next
    /\ out' = IF ok THEN out ELSE Append(out, NotARepo)
    /\ UNCHANGED exitCode

\* checkGitRepo(): continue at `next` when git rev-parse succeeds
checkGitRepo(ok, next) ==
    IF ok
    THEN /\ pc' = next
         /\ UNCHANGED <<out, exitCode>>
    ELSE /\ out' = Append(out, NotARepo)
         /\ Exit(1)

\* main, line 12
MainCheck ==
    /\ pc = "main"
    /\ \E ok \in BOOLEAN :
          /\ checkGitRepo(ok, "dispatch")
          /\ repoCheck' = IF ok THEN "ok" ELSE "failed"
    /\ UNCHANGED <<osArgs, ret, child, cmds, reads, loc>>

\* main, lines 13-16
MainHelp ==
    /\ pc = "dispatch"
    /\ Len(osArgs) < 1
    /\ PrintExit(<<HelpText>>, 0)

\* main, lines 52-54
MainUnknown ==
    /\ pc = "dispatch"
    /\ Len(osArgs) >= 1
    /\ command \notin HandlerCommands
    /\ PrintExit(<<Line("UnknownCommand", <<command>>), HelpText>>, 0)

\* main, lines 21-51: the switch
MainSwitch ==
    /\ pc = "dispatch"
    /\ Len(osArgs) >= 1
    /\ command \in HandlerCommands
    /\ IF command = "cherry-log" /\ Len(args) < 1
       THEN PrintExit(<<Line("UsageCherryLog", <<>>)>>, 0)
       ELSE /\ pc' = command
            /\ UNCHANGED <<osArgs, ret, child, out, cmds, reads, exitCode,
                           repoCheck, loc>>

\* flag.ExitOnError: a parse error prints the error and the usage, exits 2
FlagError(h) == PrintExit(<<Line("FlagError", <<h>>), Line("Usage", <<h>>)>>, 2)

---------------------------------------------------------------------------
(* update *)

UpdateCommand(n, b, r) ==
    CASE n = 1 -> <<"git", "checkout", b>>
      [] n = 2 -> <<"git", "fetch", r>>
      [] n = 3 -> <<"git", "rebase", r, "/", b>>

\* update, lines 147-153
update ==
    /\ pc = "update"
    /\ LET p == FlagParse(args, [branch |-> "master", remote |-> "origin"])
       IN  IF p.err THEN FlagError("update")
           ELSE /\ loc' = [h |-> "update", branchName |-> p.vals.branch,
                           remoteName |-> p.vals.remote]
                /\ execute(UpdateCommand(1, p.vals.branch, p.vals.remote),
                           "update2")
                /\ UNCHANGED <<osArgs, reads, exitCode, repoCheck>>

\* update, line 154
update2 ==
    /\ pc = "update2"
    /\ execute(UpdateCommand(2, loc.branchName, loc.remoteName), "update3")
    /\ UNCHANGED <<osArgs, reads, exitCode, repoCheck, loc>>

\* update, line 155
update3 ==
    /\ pc = "update3"
    /\ execute(UpdateCommand(3, loc.branchName, loc.remoteName), "return")
    /\ UNCHANGED <<osArgs, reads, exitCode, repoCheck, loc>>

---------------------------------------------------------------------------
(* refresh, rehydrate, split, push *)

\* refresh, lines 159-164
refresh ==
    /\ pc = "refresh"
    /\ LET p == FlagParse(args, [branch |-> "master"])
       IN  IF p.err THEN FlagError("refresh")
           ELSE /\ execute(<<"git", "merge", p.vals.branch>>, "return")
                /\ UNCHANGED <<osArgs, reads, exitCode, repoCheck, loc>>

\* rehydrate, lines 168-173
rehydrate ==
    /\ pc = "rehydrate"
    /\ LET p == FlagParse(args, [branch |-> "master"])
       IN  IF p.err THEN FlagError("rehydrate")
           ELSE /\ execute(<<"git", "rebase", p.vals.branch>>, "return")
                /\ UNCHANGED <<osArgs, reads, exitCode, repoCheck, loc>>

\* split without the test of line 234
splitBody_noCheck(branchName) ==
    /\ execute(<<"git", "checkout", "-b", branchName>>, "return")
    /\ UNCHANGED <<osArgs, reads, exitCode, repoCheck, loc>>

\* split, lines 234-240: what follows a successful parse
splitBody(branchName) ==
    IF branchName = ""
    THEN PrintExit(<<Line("ErrorBranchNameRequired", <<>>),
                     Line("Usage", <<"split">>)>>, 0)
    ELSE /\ execute(<<"git", "checkout", "-b", branchName>>, "return")
         /\ UNCHANGED <<osArgs, reads, exitCode, repoCheck, loc>>

\* split, lines 229-240
split ==
    /\ pc = "split"
    /\ LET p == FlagParse(args, [name |-> ""])
       IN  IF p.err THEN FlagError("split") ELSE splitBody(p.vals.name)

\* currentBranch(): git fails (an error is printed, "" is returned), or
\* prints nothing (a detached HEAD), or prints the branch's name
CurrentBranchResults ==
    {[err |-> TRUE, name |-> ""], [err |-> FALSE, name |-> ""],
     [err |-> FALSE, name |-> "cur"]}

\* what a call of currentBranch prints
currentBranchOut(cb) ==
    IF cb.err THEN <<Line("ErrorCurrentBranch", <<>>)>> ELSE <<>>

\* push, lines 244-254
push ==
    /\ pc = "push"
    /\ LET p == FlagParse(args, [branch |-> "", remote |-> "origin"])
       IN  IF p.err THEN FlagError("push")
           ELSE \E cb \in CurrentBranchResults :
                  LET asked == p.vals.branch = ""
                      b == IF asked THEN cb.name ELSE p.vals.branch
                      c == <<"git", "push", p.vals.remote, b>>
                  IN  /\ executeAfter(IF asked THEN currentBranchOut(cb)
                                       ELSE <<>>, c, "return")
                      /\ UNCHANGED <<osArgs, reads, exitCode, repoCheck, loc>>

---------------------------------------------------------------------------
(* mv *)

MvError(tag) == <<Line(tag, <<>>), Line("Usage", <<"mv">>)>>

\* renameBranch, lines 265-285, once a new name is at hand
renameResolve(name, newName, rest, cb1, cb2) ==
    LET first == newName = ""
        new1 == IF first THEN rest[1] ELSE newName
        old1 == IF first THEN cb1.name ELSE name
        p1 == IF first THEN currentBranchOut(cb1) ELSE <<>>
        second == old1 = ""
        old2 == IF second THEN cb2.name ELSE old1
        p2 == IF second THEN currentBranchOut(cb2) ELSE <<>>
    IN  IF old2 = "" \/ new1 = ""
        THEN [prints |-> p1 \o p2 \o MvError("ErrorBothNamesRequired"),
              cmd |-> None]
        ELSE [prints |-> p1 \o p2,
              cmd |-> <<"git", "branch", "-m", old2, new1>>]

\* renameBranch with the missing new name left to the test of line 279
renameDecision_lateCheck(name, newName, rest, cb1, cb2) ==
    IF newName = "" /\ Len(rest) # 1
    THEN [prints |-> MvError("ErrorBothNamesRequired"), cmd |-> None]
    ELSE renameResolve(name, newName, rest, cb1, cb2)

\* renameBranch, lines 264-285, as a function of the parsed flags (name,
\* newName), the positional arguments left by Parse, and the results of the
\* currentBranch calls of line 267 (cb1) and line 276 (cb2): what is
\* printed before any execute, and the command executed (None: none)
renameDecision(name, newName, rest, cb1, cb2) ==
    IF newName = "" /\ Len(rest) # 1
    THEN [prints |-> MvError("ErrorNewNameRequired"), cmd |-> None]
    ELSE renameResolve(name, newName, rest, cb1, cb2)

MvDefaults == [f \in {"name", "new-name"} |-> ""]

\* renameBranch, lines 258-286
renameBranch ==
    /\ pc = "mv"
    /\ LET p == FlagParse(args, MvDefaults)
       IN  IF p.err THEN FlagError("mv")
           ELSE \E cb1, cb2 \in CurrentBranchResults :
                  LET d == renameDecision(p.vals["name"], p.vals["new-name"],
                                          p.rest, cb1, cb2)
                  IN  IF d.cmd = None
                      THEN PrintExit(d.prints, 0)
                      ELSE /\ executeAfter(d.prints, d.cmd, "return")
                           /\ UNCHANGED <<osArgs, reads, exitCode, repoCheck,
                                          loc>>

---------------------------------------------------------------------------
(* Characters of the strings the code looks inside *)

Chars(s) ==
    CASE s = "" -> <<>>
      [] s = "y" -> <<"y">>
      [] s = "Y" -> <<"Y">>
      [] s = "n" -> <<"n">>
      [] s = "N" -> <<"N">>
      [] s = "yes" -> <<"y", "e", "s">>
      [] s = "ago" -> <<"a", "g", "o">>
      [] s = "3" -> <<"3">>
      [] s = "2" -> <<"2">>
      [] s = "days" -> <<"d", "a", "y", "s">>
      [] s = "month" -> <<"m", "o", "n", "t", "h">>
      [] s = "months" -> <<"m", "o", "n", "t", "h", "s">>
      [] s = "year" -> <<"y", "e", "a", "r">>
      [] s = "years" -> <<"y", "e", "a", "r", "s">>

LowerChar(c) ==
    CASE c = "Y" -> "y"
      [] c = "N" -> "n"
      [] OTHER -> c

\* strings.ToLower
ToLower(cs) == [i \in DOMAIN cs |-> LowerChar(cs[i])]

\* what fmt.Scanln(&response) can leave in response: the first token of
\* the line typed, "" for an empty line or the end of input
Responses == {"", "y", "Y", "n", "N", "yes"}

---------------------------------------------------------------------------
(* hide, pack, shove, status *)

\* stash, line 316
stash ==
    /\ pc = "hide"
    /\ execute(<<"git", "stash">>, "return")
    /\ UNCHANGED <<osArgs, reads, exitCode, repoCheck, loc>>

\* pack, line 320
pack ==
    /\ pc = "pack"
    /\ execute(<<"git", "add", "-p">>, "pack2")
    /\ UNCHANGED <<osArgs, reads, exitCode, repoCheck, loc>>

\* pack, lines 321-327
pack2 ==
    /\ pc = "pack2"
    /\ reads' = reads + 1
    /\ \E response \in Responses :
          IF ToLower(Chars(response)) = Chars("n")
          THEN /\ out' = Append(out, Line("PromptCommit", <<>>))
               /\ Exit(0)
               /\ UNCHANGED <<ret, child, cmds>>
          ELSE /\ executeAfter(<<Line("PromptCommit", <<>>)>>,
                               <<"git", "commit", "--verbose">>, "return")
               /\ UNCHANGED exitCode
    /\ UNCHANGED <<osArgs, repoCheck, loc>>

\* shove, line 331
shove ==
    /\ pc = "shove"
    /\ execute(<<"git", "add", "-p">>, "shove2")
    /\ UNCHANGED <<osArgs, reads, exitCode, repoCheck, loc>>

\* shove, line 332
shove2 ==
    /\ pc = "shove2"
    /\ execute(<<"git", "commit", "--amend", "--no-edit">>, "return")
    /\ UNCHANGED <<osArgs, reads, exitCode, repoCheck, loc>>

\* status, line 336
status ==
    /\ pc = "status"
    /\ execute(<<"git", "status", "--short", "--branch">>, "status2")
    /\ UNCHANGED <<osArgs, reads, exitCode, repoCheck, loc>>

DiffCommand == <<"git", "diff", "|", "bat", "--paging=always">>

\* status, lines 337-342
status2 ==
    /\ pc = "status2"
    /\ reads' = reads + 1
    /\ \E response \in Responses :
          IF ToLower(Chars(response)) = Chars("y") \/ response = ""
          THEN /\ executeAfter(<<Line("PromptDiff", <<>>)>>, DiffCommand,
                               "return")
               /\ UNCHANGED exitCode
          ELSE /\ out' = Append(out, Line("PromptDiff", <<>>))
               /\ Exit(0)
               /\ UNCHANGED <<ret, child, cmds>>
    /\ UNCHANGED <<osArgs, repoCheck, loc>>

---------------------------------------------------------------------------
(* Output of a git call, as the handlers read it *)

RECURSIVE DropLeading(_, _)
DropLeading(ls, blank) ==
    IF ls # <<>> /\ Head(ls) = blank THEN DropLeading(Tail(ls), blank)
    ELSE ls

RECURSIVE DropTrailing(_, _)
DropTrailing(ls, blank) ==
    IF ls # <<>> /\ ls[Len(ls)] = blank
    THEN DropTrailing(SubSeq(ls, 1, Len(ls) - 1), blank)
    ELSE ls

\* strings.Split(strings.TrimSpace(output), "\n") of an output made of the
\* lines ls, each ended by a newline: TrimSpace removes the blank lines at
\* both ends, and Split of what is left gives its lines, or, when nothing
\* is left, one empty line
TrimSplit(ls, blank) ==
    LET t == DropTrailing(DropLeading(ls, blank), blank)
    IN  IF t = <<>> THEN <<blank>> ELSE t

---------------------------------------------------------------------------
(* recent *)

BranchNames == <<"b1", "b2", "b3", "b4", "b5">>

\* what git branch | head -n 5 prints: the names of at most five branches
RecentOutputs == {SubSeq(BranchNames, 1, n) : n \in 0..RecentLimit}

DigitChars == <<"0", "1", "2", "3", "4", "5", "6", "7", "8", "9">>

Digits == {DigitChars[i] : i \in DOMAIN DigitChars}

DigitVal(c) == (CHOOSE i \in DOMAIN DigitChars : DigitChars[i] = c) - 1

ChoiceChars == Digits \cup {"a", "-", "+"}

\* the token fmt.Scanln(&choice) reads, as characters
Choices == SeqsUpTo(ChoiceChars, MaxChoiceLen)

\* the longest prefix of cs made of digits
DigitPrefix(cs) ==
    LET n == CHOOSE k \in 0..Len(cs) :
                 /\ \A i \in 1..k : cs[i] \in Digits
                 /\ k = Len(cs) \/ cs[k + 1] \notin Digits
    IN  SubSeq(cs, 1, n)

RECURSIVE DecVal(_)
DecVal(ds) ==
    IF ds = <<>> THEN 0
    ELSE DecVal(SubSeq(ds, 1, Len(ds) - 1)) * 10 + DigitVal(ds[Len(ds)])

\* fmt.Sscanf(choice, "%d", &v) with v = was before: an optional sign and
\* the digits that follow are read and what comes after them is ignored;
\* with no digit there, v is left as it was
Sscanf(cs, was) ==
    LET signed == cs # <<>> /\ cs[1] \in {"+", "-"}
        ds == DigitPrefix(IF signed THEN Tail(cs) ELSE cs)
    IN  IF ds = <<>> THEN was
        ELSE IF signed /\ cs[1] = "-" THEN 0 - DecVal(ds) ELSE DecVal(ds)

RecentListing(branches) ==
    <<Line("RecentBranches", <<>>)>>
        \o [i \in DOMAIN branches |-> Line("RecentItem", <<branches[i]>>)]
        \o <<Line("PromptRecent", <<>>)>>

\* recent, lines 130-143: what follows the prompt, given the branches
\* listed and the token read.  The command executed (None: none) and the
\* message printed instead
recentSelect(branches, choice) ==
    IF choice = <<>>
    THEN [cmd |-> None, prints |-> <<Line("NoBranchSelected", <<>>)>>]
    ELSE LET selectedIndex == Sscanf(choice, -1)
         IN  IF selectedIndex < 1 \/ selectedIndex > Len(branches)
             THEN [cmd |-> None,
                   prints |-> <<Line("InvalidSelection", <<>>)>>]
             ELSE [cmd |-> <<"git", "checkout", branches[selectedIndex]>>,
                   prints |-> <<>>]

\* recent, lines 108-143
recent ==
    /\ pc = "recent"
    /\ \E err \in BOOLEAN, names \in RecentOutputs, choice \in Choices :
          IF err
          THEN PrintExit(<<Line("ErrorFetchingRecent", <<>>)>>, 0)
          ELSE LET branches == TrimSplit(names, "")
                   d == recentSelect(branches, choice)
               IN  /\ loc' = [h |-> "recent", names |-> names,
                              branches |-> branches, choice |-> choice]
                   /\ reads' = IF Len(branches) = 0 THEN reads ELSE reads + 1
                   /\ IF Len(branches) = 0
                      THEN /\ out' = Append(out, Line("NoRecent", <<>>))
                           /\ Exit(0)
                           /\ UNCHANGED <<ret, child, cmds>>
                      ELSE IF d.cmd = None
                      THEN /\ out' = out \o RecentListing(branches)
                                         \o d.prints
                           /\ Exit(0)
                           /\ UNCHANGED <<ret, child, cmds>>
                      ELSE /\ executeAfter(RecentListing(branches), d.cmd,
                                           "return")
                           /\ UNCHANGED exitCode
                   /\ UNCHANGED <<osArgs, repoCheck>>

---------------------------------------------------------------------------
(* cleanup *)

\* lines of git branch --format "%(refname:short) %(committerdate:relative)",
\* as their whitespace-separated fields (strings.Fields): git's relative
\* dates ("3 months ago", "2 years ago", "3 days ago"), a blank line, and a
\* date that starts with its unit
CleanupLines ==
    {<<"old", "3", "months", "ago">>, <<"anc", "2", "years", "ago">>,
     <<"new", "3", "days", "ago">>, <<"odd", "months", "ago">>, <<>>}

\* cleanup, line 304
isOld(age) ==
    \/ Contains(Chars(age), Chars("month"))
    \/ Contains(Chars(age), Chars("year"))

\* cleanup, lines 297-311, for one line of the list: whether the branch is
\* prompted for, and the prompt
cleanupPrompt(parts) ==
    IF Len(parts) < 2 THEN [ask |-> FALSE, prompt |-> <<>>]
    ELSE LET branch == parts[1]
             age == parts[2]
         IN  IF isOld(age)
             THEN [ask |-> TRUE,
                   prompt |-> <<Line("PromptDelete", <<branch, age>>)>>]
             ELSE [ask |-> FALSE, prompt |-> <<>>]

\* cleanup, lines 289-295
cleanup ==
    /\ pc = "cleanup"
    /\ \E err \in BOOLEAN, ls \in SeqsUpTo(CleanupLines, MaxLines) :
          IF err
          THEN PrintExit(<<Line("ErrorBranchList", <<>>)>>, 0)
          ELSE /\ loc' = [h |-> "cleanup", output |-> ls,
                          branches |-> TrimSplit(ls, <<>>), i |-> 1]
               /\ pc' = "cleanup_loop"
               /\ UNCHANGED <<osArgs, ret, child, out, cmds, reads, exitCode,
                              repoCheck>>

\* cleanup, lines 296-312: one turn of the loop
cleanupLoop ==
    /\ pc = "cleanup_loop"
    /\ loc.i <= Len(loc.branches)
    /\ LET parts == loc.branches[loc.i]
           q == cleanupPrompt(parts)
       IN  /\ loc' = [loc EXCEPT !.i = loc.i + 1]
           /\ IF ~q.ask
              THEN UNCHANGED <<ret, child, out, cmds, reads, pc>>
              ELSE /\ reads' = reads + 1
                   /\ \E response \in Responses :
                         IF ToLower(Chars(response)) = Chars("y")
                         THEN executeAfter(q.prompt,
                                           <<"git", "branch", "-d", parts[1]>>,
                                           "cleanup_loop")
                         ELSE /\ out' = out \o q.prompt
                              /\ UNCHANGED <<ret, child, cmds, pc>>
    /\ UNCHANGED <<osArgs, exitCode, repoCheck>>

\* cleanup, line 313: the loop is over
cleanupReturn ==
    /\ pc = "cleanup_loop"
    /\ loc.i > Len(loc.branches)
    /\ Exit(0)
    /\ UNCHANGED <<osArgs, ret, child, out, cmds, reads, repoCheck, loc>>

---------------------------------------------------------------------------
(* cherry-log *)

\* lines of git cherry master <branch>, as their fields: "+ <hash>",
\* "- <hash>", a line of one field, a blank line, a line with another sign
CherryLines ==
    {<<"+", "c1">>, <<"-", "c2">>, <<"garbage">>, <<>>, <<"?", "c3">>}

\* cherryLog, line 177
cherryLog ==
    /\ pc = "cherry-log"
    /\ \E ok \in BOOLEAN : checkGitRepo(ok, "cherry_log2")
    /\ UNCHANGED <<osArgs, ret, child, cmds, reads, repoCheck, loc>>

\* cherryLog, lines 194-200: what is printed once git cherry has answered
cherryHeader(branch, lines) ==
    IF Len(lines) = 0
    THEN [prints |-> <<Line("NoUniqueCommits", <<branch>>)>>, loop |-> FALSE]
    ELSE [prints |-> <<Line("CommitsUnique", <<branch, "master">>)>>,
          loop |-> TRUE]

\* cherryLog, lines 180-200
cherryLog2 ==
    /\ pc = "cherry_log2"
    /\ LET branch == args[1]
       IN  IF branch = ""
           THEN PrintExit(<<Line("UsageCherryLog", <<>>)>>, 0)
           ELSE \E err \in BOOLEAN, ls \in SeqsUpTo(CherryLines, MaxLines) :
                  IF err
                  THEN PrintExit(<<Line("ErrorGitCherry", <<>>)>>, 0)
                  ELSE LET lines == TrimSplit(ls, <<>>)
                           hd == cherryHeader(branch, lines)
                       IN  /\ loc' = [h |-> "cherry-log", output |-> ls,
                                      lines |-> lines, i |-> 1,
                                      logOk |-> <<>>]
                           /\ out' = out \o hd.prints
                           /\ IF hd.loop
                              THEN pc' = "cherry_loop"
                                   /\ UNCHANGED exitCode
                              ELSE Exit(0)
                           /\ UNCHANGED <<osArgs, ret, child, cmds, reads,
                                          repoCheck>>

\* cherryLog with the two prefixes exchanged
cherryRender_swapped(parts, logOk) ==
    IF Len(parts) < 2 THEN <<>>
    ELSE IF ~logOk THEN <<Line("ErrorFetchingLog", <<parts[2]>>)>>
    ELSE IF parts[1] = "+" THEN <<Line("DimInMaster", <<parts[2]>>)>>
    ELSE IF parts[1] = "-" THEN <<Line("NotInMaster", <<parts[2]>>)>>
    ELSE <<>>

\* cherryLog, lines 203-224, for one line: what is printed, given whether
\* git log succeeded for its hash
cherryRender(parts, logOk) ==
    IF Len(parts) < 2 THEN <<>>
    ELSE LET sign == parts[1]
             commitHash == parts[2]
         IN  IF ~logOk THEN <<Line("ErrorFetchingLog", <<commitHash>>)>>
             ELSE IF sign = "+" THEN <<Line("NotInMaster", <<commitHash>>)>>
             ELSE IF sign = "-" THEN <<Line("DimInMaster", <<commitHash>>)>>
             ELSE <<>>

\* cherryLog, lines 201-225: one turn of the loop
cherryLoop ==
    /\ pc = "cherry_loop"
    /\ loc.i <= Len(loc.lines)
    /\ \E logOk \in BOOLEAN :
          \* git log is only run for a line of two fields or more
          /\ Len(loc.lines[loc.i]) < 2 => logOk
          /\ out' = out \o cherryRender(loc.lines[loc.i], logOk)
          /\ loc' = [loc EXCEPT !.i = loc.i + 1,
                                !.logOk = Append(loc.logOk, logOk)]
    /\ UNCHANGED <<osArgs, pc, ret, child, cmds, reads, exitCode, repoCheck>>

\* cherryLog, line 226: the loop is over
cherryReturn ==
    /\ pc = "cherry_loop"
    /\ loc.i > Len(loc.lines)
    /\ Exit(0)
    /\ UNCHANGED <<osArgs, ret, child, out, cmds, reads, repoCheck, loc>>

---------------------------------------------------------------------------

Next ==
    \/ MainCheck
    \/ MainHelp
    \/ MainUnknown
    \/ MainSwitch
    \/ ExecuteWait
    \/ update
    \/ update2
    \/ update3
    \/ refresh
    \/ rehydrate
    \/ split
    \/ push
    \/ renameBranch
    \/ stash
    \/ pack
    \/ pack2
    \/ shove
    \/ shove2
    \/ status
    \/ status2
    \/ recent
    \/ cleanup
    \/ cleanupLoop
    \/ cleanupReturn
    \/ cherryLog
    \/ cherryLog2
    \/ cherryLoop
    \/ cherryReturn

Spec == Init /\ [][Next]_vars

---------------------------------------------------------------------------
(* Properties *)

Exited == pc = "exited"

Invoked(c) == Len(osArgs) >= 1 /\ command = c

IsExecuting(l) == l.tag = "Executing"

\* the commands of the "Executing:" lines printed, in order
Announced == [i \in DOMAIN SelectSeq(out, IsExecuting) |->
                 SelectSeq(out, IsExecuting)[i].arg]

\* no handler step has run: nothing executed, announced, awaited or read
NothingRun ==
    /\ cmds = <<>>
    /\ ~HasTag(out, "Executing")
    /\ child = None
    /\ reads = 0

(* C1: for every command that reaches a handler and every argument list,  *)
(* when main's working-tree check fails the run prints only the           *)
(* not-a-repository error, exits with a non-zero status, and no handler   *)
(* step runs: no "Executing:" line, no shell command, no prompt read.     *)
C1_FailedCheckIsFatal ==
    (Len(osArgs) >= 1 /\ command \in HandlerCommands
        /\ repoCheck = "failed")
    => /\ out = <<NotARepo>>
       /\ Exited
       /\ exitCode # 0
       /\ NothingRun
       /\ loc = NoLocals

C1_Witness ==
    /\ Invoked("update")
    /\ args = <<"-branch", "a">>
    /\ repoCheck = "failed"
    /\ Exited

(* C2: a run with no arguments prints the help text and exits with status *)
(* 0 whether or not the directory is inside a working tree; it never      *)
(* prints the not-a-repository error and never exits non-zero.            *)
C2_NoArgsAlwaysHelp ==
    Len(osArgs) = 0
    => /\ ~HasTag(out, "ErrorNotARepo")
       /\ Exited => (out = <<HelpText>> /\ exitCode = 0)

---------------------------------------------------------------------------
(* cherry-log *)

CherryDone == Exited /\ loc.h = "cherry-log"

\* each line git cherry printed, with the outcome of its git log
CherryFetched ==
    [i \in DOMAIN loc.lines |-> [parts |-> loc.lines[i], ok |-> loc.logOk[i]]]

IsEntry(l) == l.tag \in {"NotInMaster", "DimInMaster"}

IsLogError(l) == l.tag = "ErrorFetchingLog"

TwoFieldsFetched(z) == Len(z.parts) >= 2 /\ z.ok

SignedFetched(z) == TwoFieldsFetched(z) /\ z.parts[1] \in {"+", "-"}

TwoFieldsFailed(z) == Len(z.parts) >= 2 /\ ~z.ok

PrefixOf(sign) == IF sign = "+" THEN "NotInMaster" ELSE "DimInMaster"

\* the entries printed are those of the lines `want`, in order, each with
\* the prefix of its sign; the errors printed are those of the lines whose
\* git log failed, in order; nothing else follows the header
CherryListingIs(want) ==
    LET entries == SelectSeq(out, IsEntry)
        errors == SelectSeq(out, IsLogError)
        failed == SelectSeq(CherryFetched, TwoFieldsFailed)
    IN  /\ Len(loc.logOk) = Len(loc.lines)
        /\ Len(entries) = Len(want)
        /\ \A i \in DOMAIN entries :
              /\ entries[i].arg = <<want[i].parts[2]>>
              /\ want[i].parts[1] \in {"+", "-"}
                    => entries[i].tag = PrefixOf(want[i].parts[1])
        /\ [i \in DOMAIN errors |-> errors[i].arg[1]]
              = [i \in DOMAIN failed |-> failed[i].parts[2]]
        /\ Len(out) = 1 + Len(entries) + Len(errors)

(* C3 as stated: the entries cherry-log renders are exactly the lines     *)
(* with at least two fields whose log fetch succeeded, in input order,    *)
(* '+' with the plain [!master] prefix and '-' with the dimmed [master]   *)
(* prefix; shorter lines print nothing; a failed fetch prints an error    *)
(* and the later lines are still processed.                               *)
C3_Original ==
    CherryDone => CherryListingIs(SelectSeq(CherryFetched, TwoFieldsFetched))

(* C3 amended: the entries cherry-log renders are exactly the lines with  *)
(* at least two fields whose first field is '+' or '-' and whose log      *)
(* fetch succeeded, in input order, '+' with the plain [!master] prefix   *)
(* and '-' with the dimmed [master] prefix; a line with fewer than two    *)
(* fields, or with another first field, prints nothing; a failed fetch    *)
(* prints an error for that commit and the later lines are processed.     *)
C3_CherryListing ==
    CherryDone => CherryListingIs(SelectSeq(CherryFetched, SignedFetched))

C3_Witness ==
    /\ CherryDone
    /\ loc.lines = << <<"-", "c2">>, <<"+", "c1">> >>
    /\ loc.logOk = <<FALSE, TRUE>>
    /\ Tags(out) = <<"CommitsUnique", "ErrorFetchingLog", "NotInMaster">>

(* C4: when git cherry succeeds with empty output, cherry-log prints the  *)
(* "No unique commits found" message and neither the listing header nor   *)
(* any entry.                                                             *)
C4_EmptyOutputMessage ==
    (CherryDone /\ loc.output = <<>>)
    => /\ Tags(out) = <<"NoUniqueCommits">>
       /\ ~HasTag(out, "CommitsUnique")

---------------------------------------------------------------------------
(* recent *)

\* the token is a number and nothing else: an optional sign, then digits
IsNumber(cs) ==
    LET body == IF cs # <<>> /\ cs[1] \in {"+", "-"} THEN Tail(cs) ELSE cs
    IN  body # <<>> /\ \A i \in DOMAIN body : body[i] \in Digits

NumberOf(cs) ==
    IF cs[1] = "-" THEN 0 - DecVal(Tail(cs))
    ELSE IF cs[1] = "+" THEN DecVal(Tail(cs))
    ELSE DecVal(cs)

(* C5: recent issues a checkout only when the input is a number k with    *)
(* 1 <= k <= the number of branches listed, and then of the k-th listed   *)
(* name; for any other input no checkout is issued and an invalid or      *)
(* no-selection message is printed; a checkout of an empty name is never  *)
(* issued.                                                                *)
C5_RecentValidated ==
    (Exited /\ loc.h = "recent")
    => LET n == Len(loc.names)
           valid == /\ IsNumber(loc.choice)
                    /\ NumberOf(loc.choice) \in 1..n
       IN  /\ valid => cmds = << <<"git", "checkout",
                                   loc.names[NumberOf(loc.choice)]>> >>
           /\ ~valid => /\ cmds = <<>>
                        /\ \/ HasTag(out, "InvalidSelection")
                           \/ HasTag(out, "NoBranchSelected")
           /\ \A i \in DOMAIN cmds : cmds[i][3] # ""

---------------------------------------------------------------------------
(* cleanup *)

CleanupDone == Exited /\ loc.h = "cleanup"

IsPrompt(l) == l.tag = "PromptDelete"

\* the relative age of a line is everything after the branch's name
AgeIsOld(parts) ==
    \E j \in 2..Len(parts) :
        \/ Contains(Chars(parts[j]), Chars("month"))
        \/ Contains(Chars(parts[j]), Chars("year"))

HasOldAge(parts) == Len(parts) >= 2 /\ AgeIsOld(parts)

(* C6: cleanup shows the Delete? prompt for a branch if and only if its   *)
(* relative age contains "month" or "year"; a branch is deleted only      *)
(* after its prompt, and a branch of any other age is neither prompted    *)
(* nor deleted.                                                           *)
C6_PromptIffOld ==
    CleanupDone
    => LET prompts == SelectSeq(out, IsPrompt)
           old == SelectSeq(loc.branches, HasOldAge)
       IN  /\ [i \in DOMAIN prompts |-> prompts[i].arg[1]]
                 = [i \in DOMAIN old |-> old[i][1]]
           /\ \A i \in DOMAIN cmds :
                 \E j \in DOMAIN prompts : prompts[j].arg[1] = cmds[i][4]

---------------------------------------------------------------------------
(* mv *)

MvParsed == FlagParse(args, MvDefaults)

(* C7: every rename mv issues is 'git branch -m O N' with N the -new-name *)
(* value if set and else the sole positional argument, and O the -name    *)
(* value if set, the current branch only if -name is unset.               *)
C7_RenameUsesGivenName ==
    (Invoked("mv") /\ cmds # <<>>)
    => LET p == MvParsed
           N == IF p.vals["new-name"] # "" THEN p.vals["new-name"]
                ELSE p.rest[1]
           O == IF p.vals["name"] # "" THEN p.vals["name"] ELSE "cur"
       IN  cmds = << <<"git", "branch", "-m", O, N>> >>

\* no -new-name value and no positional argument, and no -name value
MvNothingGiven ==
    /\ Invoked("mv")
    /\ ~MvParsed.err
    /\ MvParsed.vals["new-name"] = ""
    /\ MvParsed.rest = <<>>
    /\ MvParsed.vals["name"] = ""

(* C8 as stated: mv with no new name supplied and no resolvable old name  *)
(* prints the combined error 'Both old and new branch names are           *)
(* required.' and issues no rename.                                       *)
C8_Original ==
    (MvNothingGiven /\ Exited /\ repoCheck = "ok")
    => /\ HasTag(out, "ErrorBothNamesRequired")
       /\ cmds = <<>>

(* C8 amended: mv with no new name supplied and no -name flag prints      *)
(* 'Error: New branch name is required.' and its usage and issues no      *)
(* rename; the combined error is printed only when a new name was         *)
(* supplied, and then no rename is issued either.                         *)
C8_MissingNewName ==
    /\ (MvNothingGiven /\ Exited /\ repoCheck = "ok")
       => /\ Tags(out) = <<"ErrorNewNameRequired", "Usage">>
          /\ cmds = <<>>
    /\ (Invoked("mv") /\ HasTag(out, "ErrorBothNamesRequired"))
       => /\ \/ MvParsed.vals["new-name"] # ""
             \/ Len(MvParsed.rest) = 1
          /\ cmds = <<>>

C8_Witness ==
    /\ Invoked("mv")
    /\ args = <<>>
    /\ Exited
    /\ exitCode = 0
    /\ Tags(out) = <<"ErrorNewNameRequired", "Usage">>

---------------------------------------------------------------------------
(* Missing required values *)

SplitParsed == FlagParse(args, [name |-> ""])

\* the handler's required value is missing
MissingRequired ==
    \/ Invoked("split") /\ ~SplitParsed.err /\ SplitParsed.vals.name = ""
    \/ /\ Invoked("mv")
       /\ ~MvParsed.err
       /\ MvParsed.vals["new-name"] = ""
       /\ Len(MvParsed.rest) # 1
    \/ Invoked("cherry-log") /\ (args = <<>> \/ args[1] = "")

(* C9: split with an empty or absent -name, mv with no -new-name and a    *)
(* number of positional arguments other than one, and cherry-log with no  *)
(* or an empty branch argument execute no shell command: they print an    *)
(* error or usage text and return with no "Executing:" line and no call   *)
(* of execute.                                                            *)
C9_MissingValueRunsNothing ==
    MissingRequired
    => /\ NothingRun
       /\ pc # "execute"
       /\ Exited
          => /\ out # <<>>
             /\ out[Len(out)].tag \in
                    {"Usage", "UsageCherryLog", "ErrorNotARepo"}
             /\ repoCheck = "ok" /\ ~Invoked("cherry-log")
                    => (exitCode = 0 /\ Len(out) = 2)

C9_Witness ==
    /\ Invoked("split")
    /\ args = <<"-name", "">>
    /\ Exited
    /\ Tags(out) = <<"ErrorBranchNameRequired", "Usage">>
    /\ cmds = <<>>

---------------------------------------------------------------------------
(* update *)

UpdateParsed == FlagParse(args, [branch |-> "master", remote |-> "origin"])

UpdatePlan ==
    [n \in 1..3 |-> UpdateCommand(n, UpdateParsed.vals.branch,
                                  UpdateParsed.vals.remote)]

UpdateRuns == Invoked("update") /\ ~UpdateParsed.err /\ repoCheck = "ok"

\* the commands so far are the first ones of the plan, each announced
\* once; the run ends, with status 0, only after all three
UpdateInOrder ==
    UpdateRuns
    => /\ Len(cmds) <= 3
       /\ cmds = SubSeq(UpdatePlan, 1, Len(cmds))
       /\ Announced = cmds
       /\ child # None => child = cmds[Len(cmds)]
       /\ Exited => (cmds = UpdatePlan /\ exitCode = 0 /\ child = None)

\* a command is started only when no child is running
StartsAfterExit == Len(cmds') > Len(cmds) => child = None

(* C10: update with branch B and remote R issues exactly 'git checkout    *)
(* B', 'git fetch R', 'git rebase R/B', in this order, each started only  *)
(* after the one before has exited and each issued whatever the outcome   *)
(* of the earlier ones: a failed step prints an error line and does not   *)
(* end the run, skip or repeat a step or change the order.                *)
C10_UpdateThreeSteps == [](UpdateInOrder) /\ [][StartsAfterExit]_vars

C10_Witness ==
    /\ Invoked("update")
    /\ args = <<"-remote", "a">>
    /\ Exited
    /\ cmds = <<<<"git", "checkout", "master">>, <<"git", "fetch", "a">>,
                <<"git", "rebase", "a", "/", "master">>>>
    /\ Tags(out) = <<"Executing", "ErrorExecuting", "Executing",
                     "ErrorExecuting", "Executing">>

=============================================================================
